---- MODULE Spec2Model ----
(***************************************************************************)
(* Model of the Notion random-task generator (update_database.py,          *)
(* config.py).  One run of main() is a straight line of five remote calls  *)
(* (GET page, GET block children, chat completion, GET database, POST      *)
(* page) glued together by string processing.                              *)
(*                                                                         *)
(* Text is modelled as a sequence of atoms.  In the goals text an atom is  *)
(* one character (the extractor measures lengths); the two non-ASCII       *)
(* characters of the source are written BOX (U+2610, the to-do marker)     *)
(* and TRI (U+25BC, the toggle marker).  In the completion reply an atom   *)
(* is one lexeme (a fence of three backticks, a punctuation character, a   *)
(* blank, a newline, or a word).                                           *)
(***************************************************************************)
EXTENDS Integers, Sequences, FiniteSets, TLC

VARIABLES
    pc,               \* position of the run
    exc,              \* exception that ended the step ("none" if none)
    calls,            \* remote calls issued so far, in order
    env,              \* process environment read by config.py
    config,           \* module globals of config.py
    created,          \* records the destination list has created
    outcome,          \* "running" | "aborted" | "success" | "error"
    page_data,        \* body of the page-metadata response
    blocks,           \* results of the children response
    goals_content,    \* flattened text returned by get_page_content
    individual_tasks, \* result of extract_individual_tasks
    selected_task,    \* result of select_random_task
    completion,       \* outcome of the chat-completion call
    response_text,    \* reply text as the parser last assigned it
    gen_path,         \* return statement generate_task_with_chatgpt took
    task_data,        \* draft returned by generate_task_with_chatgpt
    properties,       \* schema returned by get_database_properties
    title_property,   \* field create_task_page writes the title to
    payload,          \* body of the POST /v1/pages request
    task_id           \* identifier returned by create_task_page

runVars == <<env, config, created, outcome>>
fetchVars == <<page_data, blocks, goals_content>>
taskVars == <<individual_tasks, selected_task>>
genVars == <<completion, response_text, gen_path, task_data>>
writeVars == <<properties, title_property, payload, task_id>>

vars == <<pc, exc, calls, runVars, fetchVars, taskVars, genVars, writeVars>>

None == <<>>

\* Python's None where the code compares it with strings
PyNone == "<None>"

\* Python truth value of a string or None
Falsy(v) == v \in {PyNone, ""}

\* the parts of the state a specification does not start from, at rest
RunAtRest ==
    /\ exc = "none" /\ calls = <<>> /\ created = 0 /\ outcome = "running"
FetchAtRest == page_data = None /\ blocks = <<>>
TasksAtRest == individual_tasks = <<>> /\ selected_task = None
GenAtRest == response_text = <<>> /\ gen_path = "none" /\ task_data = None
WriteAtRest ==
    /\ properties = <<>> /\ title_property = PyNone /\ payload = None
    /\ task_id = None

(***************************************************************************)
(* Bounds                                                                  *)
(***************************************************************************)
MaxBody == 7
MaxLines == 2
MaxBlocks == 2
MaxReplyLen == 2
MaxReplyLines == 2
MaxFields == 3

(***************************************************************************)
(* Python str operations on atom sequences                                 *)
(***************************************************************************)
Whitespace == {" ", "\n", "\t"}

RECURSIVE LStrip(_)
LStrip(t) ==
    IF t # <<>> /\ Head(t) \in Whitespace THEN LStrip(Tail(t)) ELSE t

RECURSIVE RStrip(_)
RStrip(t) ==
    IF t # <<>> /\ t[Len(t)] \in Whitespace
    THEN RStrip(SubSeq(t, 1, Len(t) - 1)) ELSE t

\* str.strip()
Strip(t) == RStrip(LStrip(t))

\* str.startswith(p)
StartsWith(t, p) == Len(t) >= Len(p) /\ SubSeq(t, 1, Len(p)) = p

\* t[n:]
DropFirst(t, n) == SubSeq(t, n + 1, Len(t))

\* index of the first occurrence of sep in t at or after position i, 0 if none
RECURSIVE FindFrom(_, _, _)
FindFrom(t, sep, i) ==
    IF i + Len(sep) - 1 > Len(t) THEN 0
    ELSE IF SubSeq(t, i, i + Len(sep) - 1) = sep THEN i
    ELSE FindFrom(t, sep, i + 1)

\* str.split(sep) for a non-empty separator
RECURSIVE Split(_, _)
Split(t, sep) ==
    LET k == FindFrom(t, sep, 1) IN
    IF k = 0 THEN <<t>>
    ELSE <<SubSeq(t, 1, k - 1)>> \o Split(DropFirst(t, k + Len(sep) - 1), sep)

RECURSIVE Concat(_)
Concat(ss) == IF ss = <<>> THEN <<>> ELSE Head(ss) \o Concat(Tail(ss))

\* sep.join(ss)
RECURSIVE Join(_, _)
Join(ss, sep) ==
    IF ss = <<>> THEN <<>>
    ELSE IF Len(ss) = 1 THEN ss[1]
    ELSE ss[1] \o sep \o Join(Tail(ss), sep)

(***************************************************************************)
(* Remote calls                                                            *)
(***************************************************************************)
\* the status codes the Notion API answers with in the model
StatusCodes == {200, 400, 404}

GetPage == "GET /v1/pages/{id}"
GetChildren == "GET /v1/blocks/{id}/children"
ChatCompletion == "chat.completions.create"
GetDatabase == "GET /v1/databases/{id}"
PostPage == "POST /v1/pages"

Call(api, status) == [api |-> api, status |-> status]

\* left alone by the content fetcher
FetchUnchanged == UNCHANGED <<runVars, taskVars, genVars, writeVars>>

(***************************************************************************)
(* read_goals_page                                                         *)
(***************************************************************************)
\* Bodies of a successful page response, as far as the code reads them:
\* properties.title.title is absent, an empty list, or a list of runs.
PageBodies ==
    { [has_title |-> FALSE, title |-> <<>>],
      [has_title |-> TRUE, title |-> <<>>],
      [has_title |-> TRUE, title |-> << <<"G", "o", "a", "l", "s">> >>] }

\* page_data.get('properties', {}).get('title', {}).get('title', [{}])[0]
\*     .get('plain_text', 'No title')
PageTitle(body) ==
    IF ~body.has_title THEN [raises |-> "none", text |-> <<"No title">>]
    ELSE IF body.title = <<>> THEN [raises |-> "IndexError", text |-> <<>>]
    ELSE [raises |-> "none", text |-> body.title[1]]

read_goals_page ==
    /\ pc = "read_goals_page"
    /\ \E status \in StatusCodes :
         /\ calls' = Append(calls, Call(GetPage, status))
         /\ IF status # 200
            THEN /\ exc' = "Exception"
                 /\ pc' = "except"
                 /\ UNCHANGED page_data
            ELSE \E body \in PageBodies :
                   IF PageTitle(body).raises # "none"
                   THEN /\ exc' = PageTitle(body).raises
                        /\ pc' = "except"
                        /\ UNCHANGED page_data
                   ELSE /\ page_data' = body
                        /\ pc' = "get_blocks"
                        /\ UNCHANGED exc
    /\ UNCHANGED <<blocks, goals_content>>
    /\ FetchUnchanged

(***************************************************************************)
(* get_page_content                                                        *)
(***************************************************************************)
Prefix(block_type) ==
    CASE block_type = "paragraph" -> <<>>
      [] block_type = "heading_1" -> <<"#", " ">>
      [] block_type = "heading_2" -> <<"#", "#", " ">>
      [] block_type = "heading_3" -> <<"#", "#", "#", " ">>
      [] block_type = "bulleted_list_item" -> <<"-", " ">>
      [] block_type = "numbered_list_item" -> <<"1", ".", " ">>
      [] block_type = "to_do" -> <<"BOX", " ">>
      [] block_type = "toggle" -> <<"TRI", " ">>

HandledTypes ==
    {"paragraph", "heading_1", "heading_2", "heading_3", "bulleted_list_item",
     "numbered_list_item", "to_do", "toggle"}

\* the branch of the if / elif chain taken for one block: the lines it appends
BlockLines(block) ==
    IF block.type \in HandledTypes
    THEN IF block.rich_text # <<>>
         THEN <<Prefix(block.type) \o Concat(block.rich_text)>>
         ELSE <<>>
    ELSE <<>>

RECURSIVE ContentOf(_)
ContentOf(bs) ==
    IF bs = <<>> THEN <<>> ELSE BlockLines(Head(bs)) \o ContentOf(Tail(bs))

\* final_content = newline.join(content)
FlattenBlocks(bs) == Join(ContentOf(bs), <<"\n">>)

\* the second half of get_page_content: the children GET and the flattening
get_page_content(BlockSeqs) ==
    /\ pc = "get_blocks"
    /\ \E status \in StatusCodes :
         /\ calls' = Append(calls, Call(GetChildren, status))
         /\ IF status # 200
            THEN /\ exc' = "Exception"
                 /\ pc' = "except"
                 /\ UNCHANGED <<blocks, goals_content>>
            ELSE \E bs \in BlockSeqs :
                   /\ blocks' = bs
                   /\ goals_content' = FlattenBlocks(bs)
                   /\ pc' = "extract"
                   /\ UNCHANGED exc
    /\ UNCHANGED page_data
    /\ FetchUnchanged

(***************************************************************************)
(* extract_individual_tasks                                                *)
(***************************************************************************)
BulletMarker == <<"-", " ">>
NumberMarker == <<"1", ".", " ">>
TodoMarker == <<"BOX", " ">>

\* lines = [line.strip() for line in goals_content.split('\n') if line.strip()]
RECURSIVE StripNonEmpty(_)
StripNonEmpty(ls) ==
    IF ls = <<>> THEN <<>>
    ELSE (IF Strip(Head(ls)) # <<>> THEN <<Strip(Head(ls))>> ELSE <<>>)
         \o StripNonEmpty(Tail(ls))

GoalLines(content) == StripNonEmpty(Split(content, <<"\n">>))

\* the condition of the continue at the head of the loop body
SkipLine(line) ==
    \/ StartsWith(line, <<"#">>)
    \/ StartsWith(line, <<"#", "#">>)
    \/ StartsWith(line, <<"#", "#", "#">>)
    \/ Len(line) < 5
    \/ line \in {<<>>, <<" ">>, <<"-">>, <<"*">>}

\* the if / elif / elif chain that removes one list marker
CleanLine_Fallthrough(line) ==
    LET c0 == Strip(line)
        c1 == IF StartsWith(c0, BulletMarker) THEN DropFirst(c0, 2) ELSE c0
        c2 == IF StartsWith(c1, NumberMarker) THEN DropFirst(c1, 3) ELSE c1
    IN  IF StartsWith(c2, TodoMarker) THEN DropFirst(c2, 2) ELSE c2

CleanLine(line) ==
    LET clean_line == Strip(line) IN
    IF StartsWith(clean_line, BulletMarker) THEN DropFirst(clean_line, 2)
    ELSE IF StartsWith(clean_line, NumberMarker) THEN DropFirst(clean_line, 3)
    ELSE IF StartsWith(clean_line, TodoMarker) THEN DropFirst(clean_line, 2)
    ELSE clean_line

\* the final test before tasks.append
KeepClean_AtLeast5(clean_line) == clean_line # <<>> /\ Len(clean_line) > 4

KeepClean(clean_line) == clean_line # <<>> /\ Len(clean_line) > 5

\* the loop over lines; each task remembers the index of its line in lines
RECURSIVE TaskLoop(_, _)
TaskLoop(lines, i) ==
    IF i > Len(lines) THEN <<>>
    ELSE IF SkipLine(lines[i]) THEN TaskLoop(lines, i + 1)
    ELSE IF KeepClean(CleanLine(lines[i]))
         THEN <<[line |-> i, text |-> CleanLine(lines[i])]>>
              \o TaskLoop(lines, i + 1)
         ELSE TaskLoop(lines, i + 1)

TasksWithOrigin(content) == TaskLoop(GoalLines(content), 1)

extract_individual_tasks(content) ==
    [k \in 1..Len(TasksWithOrigin(content)) |-> TasksWithOrigin(content)[k].text]

(***************************************************************************)
(* select_random_task                                                      *)
(***************************************************************************)
FallbackTask == <<"Review and update your goals">>

\* positions random.choice can pick
ChoicePositions_SkipLast(tasks) == 1..(IF Len(tasks) > 1 THEN Len(tasks) - 1 ELSE 1)

ChoicePositions(tasks) == 1..Len(tasks)

\* select_random_task when random.choice picks position i
SelectAt(i) ==
    /\ pc = "select"
    /\ individual_tasks # <<>>
    /\ i \in ChoicePositions(individual_tasks)
    /\ selected_task' = [index |-> i, text |-> individual_tasks[i]]
    /\ pc' = "generate"
    /\ UNCHANGED <<exc, calls, runVars, fetchVars, genVars, writeVars, individual_tasks>>

SelectFallback ==
    /\ pc = "select"
    /\ individual_tasks = <<>>
    /\ selected_task' = [index |-> 0, text |-> FallbackTask]
    /\ pc' = "generate"
    /\ UNCHANGED <<exc, calls, runVars, fetchVars, genVars, writeVars, individual_tasks>>

select_random_task ==
    \/ SelectFallback
    \/ \E i \in 1..Len(individual_tasks) : SelectAt(i)

step_extract_individual_tasks ==
    /\ pc = "extract"
    /\ individual_tasks' = extract_individual_tasks(goals_content)
    /\ pc' = "select"
    /\ UNCHANGED <<exc, calls, runVars, fetchVars, genVars, writeVars, selected_task>>

(***************************************************************************)
(* Completion replies.  An atom of a reply is one lexeme.                  *)
(***************************************************************************)
\* a run of three backticks
FENCE == "FENCE"
\* the double-quote character
QUOTE == "QUOTE"

\* str.lower() of one lexeme
Lower(a) == IF a = "TITLE" THEN "title" ELSE a

\* word in line.lower()
ContainsWord(line, word) == \E k \in 1..Len(line) : Lower(line[k]) = word

\* str.strip(QUOTE)
RECURSIVE StripQuotes(_)
StripQuotes(t) ==
    IF t # <<>> /\ Head(t) = QUOTE THEN StripQuotes(Tail(t))
    ELSE IF t # <<>> /\ t[Len(t)] = QUOTE
         THEN StripQuotes(SubSeq(t, 1, Len(t) - 1))
    ELSE t

(***************************************************************************)
(* json.loads on a lexeme sequence: objects, arrays, strings and null      *)
(***************************************************************************)
JString(t) == [kind |-> "string", v |-> t]
JNull == [kind |-> "null", v |-> <<>>]
JArray(items) == [kind |-> "array", v |-> items]
JObject(members) == [kind |-> "object", v |-> members]
Member(key, val) == [key |-> key, val |-> val]

JsonWhitespace == {" ", "\n", "\t"}
ControlCharacters == {"\n", "\t"}

ParseFail == [ok |-> FALSE, val |-> JNull, next |-> 0]
ParseOk(val, next) == [ok |-> TRUE, val |-> val, next |-> next]

RECURSIVE SkipWs(_, _)
SkipWs(t, i) ==
    IF i <= Len(t) /\ t[i] \in JsonWhitespace THEN SkipWs(t, i + 1) ELSE i

\* position of the quote that closes the string whose content starts at j,
\* 0 if a control character or the end of the text comes first
RECURSIVE ClosingQuote(_, _)
ClosingQuote(t, j) ==
    IF j > Len(t) THEN 0
    ELSE IF t[j] = QUOTE THEN j
    ELSE IF t[j] \in ControlCharacters THEN 0
    ELSE ClosingQuote(t, j + 1)

ParseString(t, i) ==
    IF i > Len(t) \/ t[i] # QUOTE THEN ParseFail
    ELSE LET j == ClosingQuote(t, i + 1) IN
         IF j = 0 THEN ParseFail
         ELSE ParseOk(JString(SubSeq(t, i + 1, j - 1)), j + 1)

RECURSIVE ParseValue(_, _)
RECURSIVE ParseMembers(_, _, _)
RECURSIVE ParseItems(_, _, _)

ParseValue(t, i) ==
    IF i > Len(t) THEN ParseFail
    ELSE IF t[i] = QUOTE THEN ParseString(t, i)
    ELSE IF t[i] = "null" THEN ParseOk(JNull, i + 1)
    ELSE IF t[i] = "{" THEN
         LET j == SkipWs(t, i + 1) IN
         IF j <= Len(t) /\ t[j] = "}" THEN ParseOk(JObject(<<>>), j + 1)
         ELSE ParseMembers(t, j, <<>>)
    ELSE IF t[i] = "[" THEN
         LET j == SkipWs(t, i + 1) IN
         IF j <= Len(t) /\ t[j] = "]" THEN ParseOk(JArray(<<>>), j + 1)
         ELSE ParseItems(t, j, <<>>)
    ELSE ParseFail

\* the members of an object from position i (a key) to the closing brace
ParseMembers(t, i, acc) ==
    LET key == ParseString(t, i) IN
    IF ~key.ok THEN ParseFail
    ELSE LET c == SkipWs(t, key.next) IN
         IF c > Len(t) \/ t[c] # ":" THEN ParseFail
         ELSE LET val == ParseValue(t, SkipWs(t, c + 1)) IN
              IF ~val.ok THEN ParseFail
              ELSE LET e == SkipWs(t, val.next)
                       all == Append(acc, Member(key.val.v, val.val))
                   IN  IF e > Len(t) THEN ParseFail
                       ELSE IF t[e] = "," THEN ParseMembers(t, SkipWs(t, e + 1), all)
                       ELSE IF t[e] = "}" THEN ParseOk(JObject(all), e + 1)
                       ELSE ParseFail

\* the items of an array from position i to the closing bracket
ParseItems(t, i, acc) ==
    LET val == ParseValue(t, i) IN
    IF ~val.ok THEN ParseFail
    ELSE LET e == SkipWs(t, val.next)
             all == Append(acc, val.val)
         IN  IF e > Len(t) THEN ParseFail
             ELSE IF t[e] = "," THEN ParseItems(t, SkipWs(t, e + 1), all)
             ELSE IF t[e] = "]" THEN ParseOk(JArray(all), e + 1)
             ELSE ParseFail

\* json.loads(text): a value with blanks around it and nothing else
JsonLoads(t) ==
    LET r == ParseValue(t, SkipWs(t, 1)) IN
    IF r.ok /\ SkipWs(t, r.next) = Len(t) + 1 THEN r ELSE ParseFail

\* dict.get(key, default) on a parsed object: the last member of that key
DictGet(obj, key, default) ==
    LET hits == {k \in 1..Len(obj.v) : obj.v[k].key = key} IN
    IF hits = {} THEN default
    ELSE obj.v[CHOOSE k \in hits : \A j \in hits : j <= k].val

(***************************************************************************)
(* generate_task_with_chatgpt                                              *)
(***************************************************************************)
DefaultTitle == JString(<<"Daily Task">>)
DefaultDescription == JString(<<"Task related to your goals">>)

Draft(title, description) == [title |-> title, description |-> description]
DefaultDraft == Draft(DefaultTitle, DefaultDescription)

Returned(path, text, draft) ==
    [raises |-> "none", path |-> path, text |-> text, draft |-> draft]
Raised(error, text) ==
    [raises |-> error, path |-> "raise", text |-> text, draft |-> None]

\* the handler of the outer try: except Exception
OuterExcept_ApiErrorsOnly(error, text) ==
    IF error \in {"AttributeError", "TypeError"}
    THEN Raised(error, text)
    ELSE Returned("except", text, DefaultDraft)

OuterExcept_Reraise(error, text) == Raised(error, text)

OuterExcept(error, text) == Returned("except", text, DefaultDraft)

\* the removal of a markdown fence
Unfence_JsonTagOnly(text) ==
    IF StartsWith(text, <<FENCE, "json">>)
    THEN Strip(Split(Split(text, <<FENCE, "json">>)[2], <<FENCE>>)[1])
    ELSE text

Unfence(text) ==
    IF StartsWith(text, <<FENCE, "json">>)
    THEN Strip(Split(Split(text, <<FENCE, "json">>)[2], <<FENCE>>)[1])
    ELSE IF StartsWith(text, <<FENCE>>)
    THEN Strip(Split(Split(text, <<FENCE>>)[2], <<FENCE>>)[1])
    ELSE text

\* the text after the last colon of the line, stripped of blanks and then of quotes
FieldValue(line) ==
    LET parts == Split(line, <<":">>) IN
    JString(StripQuotes(Strip(parts[Len(parts)])))

\* the loop of the line-scan fallback from line i on
RECURSIVE ScanLines(_, _, _, _)
ScanLines(lines, i, title, description) ==
    IF i > Len(lines) THEN Draft(title, description)
    ELSE IF ContainsWord(lines[i], "title")
         THEN ScanLines(lines, i + 1, FieldValue(lines[i]), description)
    ELSE IF ContainsWord(lines[i], "description")
         THEN ScanLines(lines, i + 1, title, FieldValue(lines[i]))
    ELSE ScanLines(lines, i + 1, title, description)

\* the handler of the inner try: except json.JSONDecodeError
LineScan(text) ==
    Returned("line_scan", text,
             ScanLines(Split(text, <<"\n">>), 1, DefaultTitle, DefaultDescription))

\* the body of the inner try, on the stripped reply
ParseReply(stripped) ==
    LET text == Unfence(stripped)
        task == JsonLoads(text)
    IN  IF ~task.ok THEN LineScan(text)
        ELSE IF task.val.kind # "object" THEN OuterExcept("AttributeError", text)
        ELSE Returned("json", text,
                      Draft(DictGet(task.val, <<"title">>, DefaultTitle),
                            DictGet(task.val, <<"description">>, DefaultDescription)))

\* the whole function, given what the completion call did
GenerateTask(c) ==
    IF c.kind = "raises" THEN OuterExcept(c.error, <<>>)
    ELSE IF c.kind = "no_content" THEN OuterExcept("AttributeError", <<>>)
    ELSE ParseReply(Strip(c.content))

GenUnchanged == UNCHANGED <<runVars, fetchVars, taskVars, writeVars>>

generate_task_with_chatgpt(Completions) ==
    /\ pc = "generate"
    /\ \E c \in Completions :
         LET r == GenerateTask(c) IN
         /\ completion' = c
         /\ calls' = Append(calls, Call(ChatCompletion,
                                        IF c.kind = "raises" THEN c.error ELSE 200))
         /\ response_text' = r.text
         /\ gen_path' = r.path
         /\ task_data' = r.draft
         /\ exc' = r.raises
         /\ pc' = IF r.raises = "none" THEN "get_database" ELSE "except"
    /\ GenUnchanged

(***************************************************************************)
(* Goals texts the extractor is run on                                     *)
(***************************************************************************)
RECURSIVE Letters(_)
Letters(n) == IF n = 0 THEN <<>> ELSE <<"a">> \o Letters(n - 1)

LinePads == {<<>>, <<" ">>}
LinePrefixes == {<<>>, BulletMarker, NumberMarker, TodoMarker,
                 <<"#">>, <<"#", "#", " ">>, <<"*", " ">>, <<"-">>}
InnerPrefixes == {<<>>, BulletMarker, NumberMarker, TodoMarker, <<"#">>}

OneLineTexts ==
    {p \o a \o b \o Letters(n) :
        p \in LinePads, a \in LinePrefixes, b \in InnerPrefixes, n \in 0..MaxBody}

ShortLines ==
    { <<"#", " ", "a", "a", "a", "a", "a", "a">>,
      BulletMarker \o Letters(6),
      BulletMarker \o Letters(4),
      NumberMarker \o Letters(7),
      <<" ">> \o TodoMarker \o Letters(6) \o <<" ">>,
      Letters(6),
      <<>> }

RECURSIVE LineSeqs(_)
LineSeqs(n) ==
    IF n = 0 THEN {<<>>}
    ELSE {<<l>> \o r : l \in ShortLines, r \in LineSeqs(n - 1)}

ManyLineTexts ==
    UNION {{Join(ls, <<"\n">>) : ls \in LineSeqs(n)} : n \in 2..MaxLines}

\* the text # Goals / - Learn Spanish / - Run a marathon, each line ended by a newline
ExampleGoals ==
    <<"#", " ", "G", "o", "a", "l", "s", "\n",
      "-", " ", "L", "e", "a", "r", "n", " ", "S", "p", "a", "n", "i", "s", "h", "\n",
      "-", " ", "R", "u", "n", " ", "a", " ", "m", "a", "r", "a", "t", "h", "o", "n", "\n">>

LearnSpanish == <<"L", "e", "a", "r", "n", " ", "S", "p", "a", "n", "i", "s", "h">>
RunAMarathon == <<"R", "u", "n", " ", "a", " ", "m", "a", "r", "a", "t", "h", "o", "n">>

GoalTexts == OneLineTexts \cup ManyLineTexts \cup {ExampleGoals}

(***************************************************************************)
(* The extractor and the selector on their own                             *)
(***************************************************************************)
InitTasks ==
    /\ pc = "extract"
    /\ goals_content \in GoalTexts
    /\ env = None /\ config = None /\ completion = None
    /\ RunAtRest /\ FetchAtRest /\ TasksAtRest /\ GenAtRest /\ WriteAtRest

NextTasks == step_extract_individual_tasks \/ select_random_task

SpecTasks == InitTasks /\ [][NextTasks]_vars

(***************************************************************************)
(* Reference filter of the extractor, written from its contract            *)
(***************************************************************************)
RefTrimmedLines(content) ==
    LET raw == Split(content, <<"\n">>)
        trimmed == [k \in 1..Len(raw) |-> Strip(raw[k])]
    IN  SelectSeq(trimmed, LAMBDA l : l # <<>>)

RefMarkers == <<BulletMarker, NumberMarker, TodoMarker>>

RefStripMarker(l) ==
    LET hits == {k \in 1..3 : StartsWith(l, RefMarkers[k])} IN
    IF hits = {} THEN l
    ELSE LET first == CHOOSE k \in hits : \A j \in hits : k <= j
         IN  DropFirst(l, Len(RefMarkers[first]))

RefExtract(content) ==
    LET kept == SelectSeq(RefTrimmedLines(content),
                          LAMBDA l : ~StartsWith(l, <<"#">>) /\ ~(Len(l) < 5))
        stripped == [k \in 1..Len(kept) |-> RefStripMarker(kept[k])]
    IN  SelectSeq(stripped, LAMBDA r : ~(Len(r) <= 5))

Extracted == pc \in {"select", "generate"}

\* C4: every string the extractor returns has length at least 6 after
\* marker-stripping, and none of them comes from an input line that, once
\* trimmed, started with '#'.
C4_MinLengthNoHeading ==
    Extracted =>
        /\ Len(individual_tasks) = Len(TasksWithOrigin(goals_content))
        /\ \A k \in 1..Len(individual_tasks) :
              LET o == TasksWithOrigin(goals_content)[k] IN
              /\ individual_tasks[k] = o.text
              /\ Len(individual_tasks[k]) >= 6
              /\ ~StartsWith(GoalLines(goals_content)[o.line], <<"#">>)

\* a marker line of exactly six remaining characters is returned, next to a
\* heading line that is not
C4_Witness ==
    /\ Extracted
    /\ goals_content = Join(<<<<"#", " ", "a", "a", "a", "a", "a", "a">>,
                              BulletMarker \o Letters(6)>>, <<"\n">>)
    /\ individual_tasks = <<Letters(6)>>

\* C5: the extractor equals the reference filter (split, trim, drop empty,
\* drop headings and lines shorter than 5, remove at most one marker in the
\* order "- ", "1. ", BOX, drop results of length <= 5), keeping order and
\* duplicates; the example text yields exactly the two goals.
C5_EqualsReferenceFilter ==
    Extracted =>
        /\ individual_tasks = RefExtract(goals_content)
        /\ goals_content = ExampleGoals =>
              individual_tasks = <<LearnSpanish, RunAMarathon>>

C5_Witness ==
    /\ Extracted
    /\ goals_content = ExampleGoals
    /\ individual_tasks = <<LearnSpanish, RunAMarathon>>

\* a line with two markers in a row loses only the first
C5_WitnessOneMarker ==
    /\ Extracted
    /\ goals_content = BulletMarker \o NumberMarker \o Letters(6)
    /\ individual_tasks = <<NumberMarker \o Letters(6)>>

\* C6: on an empty list the selector returns the literal fallback; on a
\* non-empty list every position can be picked, the result is the element
\* at the picked position, and the list is left as the extractor returned it.
C6_SelectorContract ==
    /\ pc = "select" =>
          IF individual_tasks = <<>>
          THEN ENABLED SelectFallback
          ELSE /\ ~ENABLED SelectFallback
               /\ \A i \in 1..Len(individual_tasks) : ENABLED SelectAt(i)
    /\ pc = "generate" =>
          /\ individual_tasks = extract_individual_tasks(goals_content)
          /\ IF individual_tasks = <<>>
             THEN selected_task.text = FallbackTask
             ELSE /\ selected_task.index \in 1..Len(individual_tasks)
                  /\ selected_task.text = individual_tasks[selected_task.index]

\* a value that appears twice, picked through its second position
C6_Witness ==
    /\ pc = "generate"
    /\ Len(individual_tasks) = 2
    /\ individual_tasks[1] = individual_tasks[2]
    /\ selected_task.index = 2

C6_WitnessEmpty ==
    /\ pc = "generate"
    /\ individual_tasks = <<>>
    /\ selected_task.text = FallbackTask

(***************************************************************************)
(* The content fetcher on its own                                          *)
(***************************************************************************)
BlockTypes == HandledTypes \cup {"divider", "unknown"}

\* rich_text lists: no run, one empty run, one run, two runs
RichTexts ==
    { <<>>, << <<>> >>, << <<"a", "a", "a">> >>, << <<"a">>, <<"b", "c">> >> }

Blocks == [type : BlockTypes, rich_text : RichTexts]

RECURSIVE SeqsUpTo(_, _)
SeqsUpTo(S, n) ==
    IF n = 0 THEN {<<>>}
    ELSE SeqsUpTo(S, n - 1)
         \cup {Append(q, x) : q \in {r \in SeqsUpTo(S, n - 1) : Len(r) = n - 1}, x \in S}

FetchBlockSeqs == SeqsUpTo(Blocks, MaxBlocks)

InitFetch ==
    /\ pc = "read_goals_page"
    /\ goals_content = <<>>
    /\ env = None /\ config = None /\ completion = None
    /\ RunAtRest /\ FetchAtRest /\ TasksAtRest /\ GenAtRest /\ WriteAtRest

NextFetch == read_goals_page \/ get_page_content(FetchBlockSeqs)

SpecFetch == InitFetch /\ [][NextFetch]_vars

\* the text of a block: the concatenation of its runs
InlineText(block) == Concat(block.rich_text)

\* the lines the contract asks for: none for an unhandled kind or an empty
\* inline text, otherwise the prefix followed by the text
RECURSIVE ContractLines(_)
ContractLines(bs) ==
    IF bs = <<>> THEN <<>>
    ELSE (IF Head(bs).type \in HandledTypes /\ InlineText(Head(bs)) # <<>>
          THEN <<Prefix(Head(bs).type) \o InlineText(Head(bs))>>
          ELSE <<>>)
         \o ContractLines(Tail(bs))

\* C7: no line for an unhandled kind, no line for a handled kind whose inline
\* text is empty (also when its runs are all empty), one prefixed line for
\* every other block, in block order.
C7_FlattenContract ==
    pc = "extract" => goals_content = Join(ContractLines(blocks), <<"\n">>)

IssuedOrder ==
    /\ Len(calls) <= 2
    /\ Len(calls) >= 1 => calls[1].api = GetPage
    /\ Len(calls) >= 2 => calls[2].api = GetChildren

\* C8: the metadata GET comes first and the children GET second; the fetch
\* fails when a GET returns a non-success status (a failed metadata GET ends
\* it before the children GET) and, whatever the metadata holds, it does not
\* fail otherwise: two successful GETs return the flattened text.
C8_FetchFailsOnlyOnStatus ==
    /\ IssuedOrder
    /\ (Len(calls) >= 1 /\ calls[1].status # 200) =>
          (pc = "except" /\ Len(calls) = 1)
    /\ (Len(calls) = 2 /\ calls[2].status # 200) => pc = "except"
    /\ pc = "except" => \E k \in 1..Len(calls) : calls[k].status # 200
    /\ (Len(calls) = 2 /\ \A k \in 1..2 : calls[k].status = 200) =>
          (pc = "extract" /\ goals_content = FlattenBlocks(blocks))

(***************************************************************************)
(* Completion outcomes the generator is run on                             *)
(***************************************************************************)
ApiErrors ==
    {"APIConnectionError", "APITimeoutError", "AuthenticationError",
     "APIStatusError"}

CallRaises(error) == [kind |-> "raises", error |-> error, content |-> <<>>]
NoContent == [kind |-> "no_content", error |-> "none", content |-> <<>>]
Reply(content) == [kind |-> "reply", error |-> "none", content |-> content]

\* values of a member: a string, null, a string holding a fence
MemberValues == {JString(<<"a">>), JNull, JString(<<"a", FENCE, "b">>)}

TitleMembers == {<<>>} \cup {<<Member(<<"title">>, v)>> : v \in MemberValues}
DescriptionMembers ==
    {<<>>} \cup {<<Member(<<"description">>, v)>> : v \in MemberValues}
OtherMembers == {<<>>, <<Member(<<"a">>, JString(<<"b">>))>>}

ObjectMembers ==
    {t \o d \o o : t \in TitleMembers, d \in DescriptionMembers, o \in OtherMembers}
    \cup { <<Member(<<"description">>, JString(<<"b">>)),
             Member(<<"title">>, JString(<<"a">>))>>,
           <<Member(<<"title">>, JString(<<"a">>)),
             Member(<<"title">>, JString(<<"b">>))>>,
           <<Member(<<"TITLE">>, JString(<<"a">>))>> }

DumpValue(v) == IF v.kind = "null" THEN <<"null">> ELSE <<QUOTE>> \o v.v \o <<QUOTE>>

RECURSIVE DumpMembers(_, _)
DumpMembers(ms, style) ==
    IF ms = <<>> THEN <<>>
    ELSE (IF style = "pretty" THEN <<"\n", " ">> ELSE <<>>)
         \o <<QUOTE>> \o Head(ms).key \o <<QUOTE, ":">>
         \o (IF style = "pretty" THEN <<" ">> ELSE <<>>)
         \o DumpValue(Head(ms).val)
         \o (IF Len(ms) > 1 THEN <<",">> ELSE <<>>)
         \o DumpMembers(Tail(ms), style)

\* the text of an object, on one line or one member per line
Dumps(ms, style) ==
    <<"{">> \o DumpMembers(ms, style)
    \o (IF style = "pretty" /\ ms # <<>> THEN <<"\n">> ELSE <<>>) \o <<"}">>

Styles == {"compact", "pretty"}

ClosedFences == {"json_fence", "bare_fence"}
Wrappers ==
    ClosedFences \cup {"plain", "padded", "open_fence", "other_tag", "trailing_text"}

Wrap(w, body) ==
    CASE w = "plain" -> body
      [] w = "padded" -> <<"\n", " ">> \o body \o <<" ", "\n">>
      [] w = "json_fence" -> <<FENCE, "json", "\n">> \o body \o <<"\n", FENCE>>
      [] w = "bare_fence" -> <<FENCE, "\n">> \o body \o <<"\n", FENCE>>
      [] w = "open_fence" -> <<FENCE, "json", "\n">> \o body
      [] w = "other_tag" -> <<FENCE, "a", "\n">> \o body \o <<"\n", FENCE>>
      [] w = "trailing_text" ->
           <<" ", FENCE, "json", "\n">> \o body \o <<"\n", FENCE, "\n", "a">>

ObjectReplies ==
    {Wrap(w, Dumps(ms, st)) : w \in Wrappers, ms \in ObjectMembers, st \in Styles}

\* texts that are JSON but not an object
NonObjectBodies ==
    { <<"[", "]">>, <<"[", QUOTE, "title", QUOTE, ",", "null", "]">>,
      <<QUOTE, "title", QUOTE>>, <<"null">> }

NonObjectReplies == {Wrap(w, b) : w \in Wrappers, b \in NonObjectBodies}

\* lines for the line scan
ScanLineSet ==
    { <<"title", ":", " ", QUOTE, "a", QUOTE>>,
      <<QUOTE, "TITLE", QUOTE, ":", " ", QUOTE, "a", " ", "b", QUOTE, ",">>,
      <<"description", ":", " ", "b">>,
      <<"title", " ", "description", ":", " ", "a">>,
      <<"a", ":", "b">>,
      <<"title">>,
      <<"description", ":", "a", ":", "b">>,
      <<>> }

RECURSIVE ScanLineSeqs(_)
ScanLineSeqs(n) ==
    IF n = 0 THEN {<<>>}
    ELSE {<<l>> \o r : l \in ScanLineSet, r \in ScanLineSeqs(n - 1)}

\* an object cut short before its closing brace, on one line
TruncatedObject ==
    <<"{", QUOTE, "title", QUOTE, ":", " ", QUOTE, "a", QUOTE, ",", " ",
      QUOTE, "description", QUOTE, ":", " ", QUOTE, "b", QUOTE>>

LineReplies ==
    UNION {{Join(ls, <<"\n">>) : ls \in ScanLineSeqs(n)} : n \in 1..MaxReplyLines}
    \cup {TruncatedObject, Wrap("json_fence", TruncatedObject)}

ReplyAtoms ==
    {FENCE, "json", "{", "}", "[", "]", ":", ",", QUOTE, " ", "\n",
     "title", "TITLE", "description", "a", "null"}

ShortReplies == SeqsUpTo(ReplyAtoms, MaxReplyLen)

GenCompletions ==
    {CallRaises(e) : e \in ApiErrors} \cup {NoContent}
    \cup {Reply(t) : t \in ObjectReplies \cup NonObjectReplies \cup LineReplies
                           \cup ShortReplies}

(***************************************************************************)
(* The generator on its own                                                *)
(***************************************************************************)
InitGen ==
    /\ pc = "generate"
    /\ goals_content = <<>>
    /\ individual_tasks = <<>>
    /\ selected_task = [index |-> 0, text |-> FallbackTask]
    /\ env = None /\ config = None /\ completion = None
    /\ RunAtRest /\ FetchAtRest /\ GenAtRest /\ WriteAtRest

NextGen == generate_task_with_chatgpt(GenCompletions)

SpecGen == InitGen /\ [][NextGen]_vars

Generated == gen_path # "none"

\* C3: the generator never raises; whatever the completion call did and
\* whatever the reply holds, it returns a draft with a title and a
\* description, and the two defaults when the call itself failed.
C3_GeneratorNeverRaises ==
    Generated =>
        /\ exc = "none"
        /\ gen_path \in {"json", "line_scan", "except"}
        /\ DOMAIN task_data = {"title", "description"}
        /\ completion.kind = "raises" => task_data = DefaultDraft

\* a reply that is JSON but not an object ends in the two defaults
C3_Witness ==
    /\ Generated
    /\ completion = Reply(<<"[", "]">>)
    /\ exc = "none"
    /\ task_data = DefaultDraft

C3_WitnessCallFails ==
    /\ Generated
    /\ completion = CallRaises("APITimeoutError")
    /\ task_data = DefaultDraft

(***************************************************************************)
(* Reference readings of a reply, written from the parse contract          *)
(***************************************************************************)
\* the text between the first pair of fences of a trimmed reply that starts
\* with a fence (the tag json skipped), the trimmed reply itself otherwise
RefBetweenFences(content) ==
    LET t == Strip(content) IN
    IF t = <<>> \/ t[1] # FENCE THEN t
    ELSE LET from == IF Len(t) >= 2 /\ t[2] = "json" THEN 3 ELSE 2
             closing == {k \in from..Len(t) : t[k] = FENCE}
             to == IF closing = {} THEN Len(t)
                   ELSE (CHOOSE k \in closing : \A j \in closing : k <= j) - 1
         IN  Strip(SubSeq(t, from, to))

\* the value of a key in a list of members, the later member winning
RECURSIVE RefValueOf(_, _, _)
RefValueOf(ms, key, default) ==
    IF ms = <<>> THEN default
    ELSE IF ms[Len(ms)].key = key THEN ms[Len(ms)].val
    ELSE RefValueOf(SubSeq(ms, 1, Len(ms) - 1), key, default)

RefDraft(ms) ==
    Draft(RefValueOf(ms, <<"title">>, DefaultTitle),
          RefValueOf(ms, <<"description">>, DefaultDescription))

HasFence(t) == \E k \in 1..Len(t) : t[k] = FENCE

\* the reply reads as the object ms once trimmed and unfenced
ReadsAsObject(ms) ==
    \E st \in Styles : RefBetweenFences(completion.content) = Dumps(ms, st)

\* the reply is the text of the object ms inside a closed pair of fences
IsFencedCopy(ms) ==
    \E st \in Styles, w \in ClosedFences :
        completion.content = Wrap(w, Dumps(ms, st))

VerbatimFromObject ==
    \A ms \in ObjectMembers :
        ReadsAsObject(ms) => (gen_path = "json" /\ task_data = RefDraft(ms))

\* C9 as stated: a reply that reads as a JSON object gives that object's
\* title and description (defaults for missing keys), and a fenced copy of
\* any JSON object gives the same draft as the unfenced object.
C9_FencedCopyOfAnyObject ==
    (Generated /\ completion.kind = "reply") =>
        /\ VerbatimFromObject
        /\ \A ms \in ObjectMembers : IsFencedCopy(ms) => task_data = RefDraft(ms)

\* C9 amended: a reply that reads as a JSON object gives that object's title
\* and description (defaults for missing keys); a fenced copy of a JSON
\* object whose text holds no triple backtick gives the same draft as the
\* unfenced object.
C9_FencedCopyWithoutInnerFence ==
    (Generated /\ completion.kind = "reply") =>
        /\ VerbatimFromObject
        /\ \A ms \in ObjectMembers :
              (IsFencedCopy(ms) /\ \A st \in Styles : ~HasFence(Dumps(ms, st)))
                  => (gen_path = "json" /\ task_data = RefDraft(ms))

\* a fenced object with no description: its title and the default description
C9_Witness ==
    /\ Generated
    /\ completion =
         Reply(Wrap("bare_fence",
                    Dumps(<<Member(<<"title">>, JString(<<"a">>))>>, "pretty")))
    /\ gen_path = "json"
    /\ task_data = Draft(JString(<<"a">>), DefaultDescription)

\* the text after the last colon, trimmed, without surrounding quotes
RefFieldText(line) ==
    LET colons == {k \in 1..Len(line) : line[k] = ":"}
        last == IF colons = {} THEN 0
                ELSE CHOOSE k \in colons : \A j \in colons : j <= k
    IN  JString(StripQuotes(Strip(SubSeq(line, last + 1, Len(line)))))

\* the field set by every line that holds the word, the last such line winning
RefScanField(lines, word, default) ==
    LET hits == {k \in 1..Len(lines) : ContainsWord(lines[k], word)} IN
    IF hits = {} THEN default
    ELSE RefFieldText(lines[CHOOSE k \in hits : \A j \in hits : j <= k])

\* C10: when the strict parse fails, every line holding the word title sets
\* the title and every line holding the word description sets the
\* description (a line holding both sets both), each to the text after the
\* last colon, trimmed and unquoted; with no such line the draft is the two
\* defaults.
C10_LineScanSetsBothFields ==
    gen_path = "line_scan" =>
        LET lines == Split(response_text, <<"\n">>) IN
        task_data = Draft(RefScanField(lines, "title", DefaultTitle),
                          RefScanField(lines, "description", DefaultDescription))

(***************************************************************************)
(* get_database_properties and create_task_page                            *)
(***************************************************************************)
Field(name, type, options) == [name |-> name, type |-> type, options |-> options]

\* Bodies of a successful database response, as far as the code reads them:
\* the title list (absent, empty or with a run) and the properties in the
\* order the mapping iterates them.
DatabaseBody(has_title, title, fields) ==
    [has_title |-> has_title, title |-> title, properties |-> fields]

\* database.get('title', [{}])[0].get('plain_text', 'No title')
DatabaseTitle(body) ==
    IF ~body.has_title THEN [raises |-> "none", text |-> <<"No title">>]
    ELSE IF body.title = <<>> THEN [raises |-> "IndexError", text |-> <<>>]
    ELSE [raises |-> "none", text |-> body.title[1]]

WriteUnchanged == UNCHANGED <<fetchVars, taskVars, genVars>>

get_database_properties(Bodies) ==
    /\ pc = "get_database"
    /\ \E status \in StatusCodes :
         /\ calls' = Append(calls, Call(GetDatabase, status))
         /\ IF status # 200
            THEN /\ exc' = "Exception"
                 /\ pc' = "except"
                 /\ UNCHANGED properties
            ELSE \E body \in Bodies :
                   IF DatabaseTitle(body).raises # "none"
                   THEN /\ exc' = DatabaseTitle(body).raises
                        /\ pc' = "except"
                        /\ UNCHANGED properties
                   ELSE /\ properties' = body.properties
                        /\ pc' = "create_page"
                        /\ UNCHANGED exc
    /\ UNCHANGED <<runVars, title_property, payload, task_id>>
    /\ WriteUnchanged

\* the loop that looks for the property of type title, from position i on
FindTitle_NoBreak(fields, i) ==
    LET hits == {k \in i..Len(fields) : fields[k].type = "title"} IN
    IF hits = {} THEN PyNone
    ELSE fields[CHOOSE k \in hits : \A j \in hits : j <= k].name

RECURSIVE FindTitle(_, _)
FindTitle(fields, i) ==
    IF i > Len(fields) THEN PyNone
    ELSE IF fields[i].type = "title" THEN fields[i].name
    ELSE FindTitle(fields, i + 1)

\* the title carrier: the title-typed property, else list(properties.keys())[0]
TitleProperty(fields) ==
    IF ~Falsy(FindTitle(fields, 1))
    THEN [raises |-> "none", name |-> FindTitle(fields, 1)]
    ELSE IF fields = <<>> THEN [raises |-> "IndexError", name |-> PyNone]
    ELSE [raises |-> "none", name |-> fields[1].name]

\* datetime.now().strftime on the day of the run
Today == "today"

TitleValue(task) == [kind |-> "title", value |-> task.title]
SelectValue_LastOption(field) ==
    [kind |-> "select", value |-> field.options[Len(field.options)]]

SelectValue(field) == [kind |-> "select", value |-> field.options[1]]
DateValue == [kind |-> "date", value |-> Today]

\* the property the second loop sets from a field other than the carrier
Filled(field) ==
    \/ field.type = "select" /\ field.options # <<>>
    \/ field.type = "date"

\* properties_payload, as a mapping from property name to value
PropertiesPayload(fields, carrier, task) ==
    LET set == {k \in 1..Len(fields) : fields[k].name # carrier /\ Filled(fields[k])}
        names == {carrier} \cup {fields[k].name : k \in set}
        of(n) == CHOOSE k \in set : fields[k].name = n
    IN  [n \in names |->
            IF n = carrier THEN TitleValue(task)
            ELSE IF fields[of(n)].type = "select" THEN SelectValue(fields[of(n)])
            ELSE DateValue]

Payload(fields, carrier, task) ==
    [properties |-> PropertiesPayload(fields, carrier, task),
     children |-> <<[type |-> "paragraph", content |-> task.description]>>]

\* the test on the status of the POST
PostFailed_Expects201(status) == status # 201

PostFailed_Unchecked(status) == FALSE

PostFailed(status) == status # 200

\* the list creates the record exactly when it answers 200
RecordsCreated(status) == IF status = 200 THEN 1 ELSE 0

NewPageId == "new-page-id"

create_task_page ==
    /\ pc = "create_page"
    /\ LET carrier == TitleProperty(properties) IN
       IF carrier.raises # "none"
       THEN /\ exc' = carrier.raises
            /\ pc' = "except"
            /\ UNCHANGED <<calls, runVars, title_property, payload, task_id>>
       ELSE /\ title_property' = carrier.name
            /\ payload' = Payload(properties, carrier.name, task_data)
            /\ \E status \in StatusCodes :
                 /\ calls' = Append(calls, Call(PostPage, status))
                 /\ created' = created + RecordsCreated(status)
                 /\ IF PostFailed(status)
                    THEN /\ exc' = "Exception"
                         /\ pc' = "except"
                         /\ UNCHANGED task_id
                    ELSE /\ task_id' = NewPageId
                         /\ pc' = "return"
                         /\ UNCHANGED exc
            /\ UNCHANGED <<env, config, outcome>>
    /\ UNCHANGED properties
    /\ WriteUnchanged

(***************************************************************************)
(* config.py and main                                                      *)
(***************************************************************************)
Unset == "<unset>"
GoalsPlaceholder == "your-goals-page-id-here"
TodoPlaceholder == "your-todo-database-id-here"

\* os.getenv(name) and os.getenv(name, default)
GetEnv(e, name) == IF e[name] = Unset THEN PyNone ELSE e[name]
GetEnvDefault(e, name, default) == IF e[name] = Unset THEN default ELSE e[name]

\* the module globals of config.py
LoadConfig(e) ==
    [NOTION_TOKEN |-> GetEnv(e, "NOTION_TOKEN"),
     OPENAI_API_KEY |-> GetEnv(e, "OPENAI_API_KEY"),
     GOALS_PAGE_ID |-> GetEnvDefault(e, "GOALS_PAGE_ID", GoalsPlaceholder),
     TODO_DATABASE_ID |-> GetEnvDefault(e, "TODO_DATABASE_ID", TodoPlaceholder)]

\* the three early returns of main
ConfigRejected_EmptyOnly(c) ==
    \/ Falsy(c.NOTION_TOKEN) \/ Falsy(c.OPENAI_API_KEY)
    \/ Falsy(c.GOALS_PAGE_ID)
    \/ Falsy(c.TODO_DATABASE_ID)

ConfigRejected(c) ==
    \/ Falsy(c.NOTION_TOKEN) \/ Falsy(c.OPENAI_API_KEY)
    \/ Falsy(c.GOALS_PAGE_ID) \/ c.GOALS_PAGE_ID = GoalsPlaceholder
    \/ Falsy(c.TODO_DATABASE_ID) \/ c.TODO_DATABASE_ID = TodoPlaceholder

MainUnchanged ==
    UNCHANGED <<exc, calls, env, config, created, fetchVars, taskVars, genVars,
                writeVars>>

\* main up to the call of generate_daily_task
main_check_config ==
    /\ pc = "main"
    /\ IF ConfigRejected(config)
       THEN outcome' = "aborted" /\ pc' = "done"
       ELSE outcome' = "running" /\ pc' = "read_goals_page"
    /\ MainUnchanged

\* generate_daily_task returned: main prints SUCCESS
main_success ==
    /\ pc = "return"
    /\ outcome' = "success"
    /\ pc' = "done"
    /\ MainUnchanged

\* the except clause of main
main_except ==
    /\ pc = "except"
    /\ outcome' = "error"
    /\ pc' = "done"
    /\ MainUnchanged

(***************************************************************************)
(* One run of main                                                         *)
(***************************************************************************)
TokenValues == {Unset, "", "secret"}

Envs ==
    [NOTION_TOKEN : TokenValues,
     OPENAI_API_KEY : TokenValues,
     GOALS_PAGE_ID : {Unset, "", GoalsPlaceholder, "goals-page"},
     TODO_DATABASE_ID : {Unset, "", TodoPlaceholder, "todo-database"}]

Block(type, runs) == [type |-> type, rich_text |-> runs]

RunBlockSeqs ==
    { <<>>,
      <<Block("heading_1", << <<"G", "o", "a", "l", "s">> >>),
        Block("bulleted_list_item", <<Letters(6)>>),
        Block("to_do", <<Letters(3), Letters(3)>>)>>,
      <<Block("paragraph", <<Letters(4)>>), Block("divider", <<>>)>> }

RunCompletions ==
    { CallRaises("APIConnectionError"),
      Reply(Dumps(<<Member(<<"title">>, JString(<<"a">>)),
                    Member(<<"description">>, JString(<<"b">>))>>, "compact")),
      Reply(<<"a">>) }

RunSchemas ==
    { <<Field("Name", "title", <<>>),
        Field("Status", "select", <<"To Do", "Done">>),
        Field("Due", "date", <<>>)>>,
      <<Field("Status", "select", <<>>), Field("Notes", "rich_text", <<>>)>>,
      <<>> }

RunDatabases ==
    {DatabaseBody(TRUE, << <<"T", "o", "d", "o">> >>, f) : f \in RunSchemas}
    \cup {DatabaseBody(FALSE, <<>>, f) : f \in RunSchemas}
    \cup {DatabaseBody(TRUE, <<>>, f) : f \in RunSchemas}

Init ==
    /\ pc = "main"
    /\ env \in Envs
    /\ config = LoadConfig(env)
    /\ goals_content = <<>>
    /\ completion = None
    /\ RunAtRest /\ FetchAtRest /\ TasksAtRest /\ GenAtRest /\ WriteAtRest

Next ==
    \/ main_check_config
    \/ read_goals_page
    \/ get_page_content(RunBlockSeqs)
    \/ step_extract_individual_tasks
    \/ select_random_task
    \/ generate_task_with_chatgpt(RunCompletions)
    \/ get_database_properties(RunDatabases)
    \/ create_task_page
    \/ main_success
    \/ main_except

Spec == Init /\ [][Next]_vars

PostsIssued == Cardinality({k \in 1..Len(calls) : calls[k].api = PostPage})

\* C1: a run issues at most one record-creation request; a run that reports
\* success has created exactly one record, and a run that ends in an error
\* or a configuration abort has created none.
C1_OneRecordOrNone ==
    /\ PostsIssued <= 1
    /\ created <= 1
    /\ outcome = "success" => created = 1
    /\ outcome \in {"error", "aborted"} => created = 0

C1_Witness ==
    /\ outcome = "success"
    /\ created = 1
    /\ PostsIssued = 1

\* a run whose POST is refused ends in an error with no record
C1_WitnessRefused ==
    /\ outcome = "error"
    /\ PostsIssued = 1
    /\ created = 0

\* the settings the contract calls not configured
NotConfigured(e) ==
    \/ e.NOTION_TOKEN \in {Unset, ""}
    \/ e.OPENAI_API_KEY \in {Unset, ""}
    \/ e.GOALS_PAGE_ID \in {Unset, GoalsPlaceholder}
    \/ e.TODO_DATABASE_ID \in {Unset, TodoPlaceholder}

\* C2: with a token or key missing or empty, or an identifier missing or
\* left at its placeholder, main aborts before any remote call: no call is
\* ever issued and no record is created.
C2_AbortBeforeAnyCall ==
    NotConfigured(env) =>
        /\ calls = <<>>
        /\ created = 0
        /\ pc \in {"main", "done"}
        /\ pc = "done" => outcome = "aborted"

\* the database identifier was never set: the run is over, nothing was called
C2_Witness ==
    /\ env.NOTION_TOKEN = "secret" /\ env.OPENAI_API_KEY = "secret"
    /\ env.GOALS_PAGE_ID = "goals-page"
    /\ env.TODO_DATABASE_ID = Unset
    /\ pc = "done"
    /\ outcome = "aborted"
    /\ calls = <<>>

(***************************************************************************)
(* The task writer on its own                                              *)
(***************************************************************************)
FieldNames == <<"P1", "P2", "P3", "P4", "P5">>

\* what a property can be: a title, a select with or without options, a
\* date, or a property of another type
FieldKinds ==
    { [type |-> "title", options |-> <<>>],
      [type |-> "select", options |-> <<>>],
      [type |-> "select", options |-> <<"To Do", "Done">>],
      [type |-> "date", options |-> <<>>],
      [type |-> "rich_text", options |-> <<>>] }

\* schemas of up to MaxFields properties, the k-th named FieldNames[k]
Schemas ==
    {[k \in 1..Len(q) |-> Field(FieldNames[k], q[k].type, q[k].options)] :
        q \in SeqsUpTo(FieldKinds, MaxFields)}

WriteDatabases ==
    {DatabaseBody(TRUE, << <<"T", "o", "d", "o">> >>, f) : f \in Schemas}
    \cup {DatabaseBody(FALSE, <<>>, f) : f \in Schemas}
    \cup {DatabaseBody(TRUE, <<>>, <<>>)}

WriteDrafts == {DefaultDraft, Draft(JString(<<"a">>), JString(<<"b">>))}

InitWrite ==
    /\ pc = "get_database"
    /\ task_data \in WriteDrafts
    /\ gen_path = "json"
    /\ response_text = <<>>
    /\ goals_content = <<>>
    /\ env = None /\ config = None /\ completion = None
    /\ RunAtRest /\ FetchAtRest /\ TasksAtRest /\ WriteAtRest

NextWrite == get_database_properties(WriteDatabases) \/ create_task_page

SpecWrite == InitWrite /\ [][NextWrite]_vars

TitleTyped(fields) == {k \in 1..Len(fields) : fields[k].type = "title"}

\* the carrier the contract names: the first title-typed field, else the
\* first field
RefCarrier(fields) ==
    IF TitleTyped(fields) # {}
    THEN fields[CHOOSE k \in TitleTyped(fields) :
                    \A j \in TitleTyped(fields) : k <= j].name
    ELSE IF fields # <<>> THEN fields[1].name
    ELSE PyNone

\* the step issued the record-creation POST
PostFollows ==
    /\ Len(calls') = Len(calls) + 1
    /\ calls'[Len(calls')].api = PostPage

\* C11 as stated: on every schema the writer goes on to the POST with the
\* first title-typed field as carrier, or with the first field when no field
\* is title-typed, a schema with no fields included.
C11_CarrierOnEverySchema ==
    [][create_task_page =>
          (PostFollows /\ title_property' = RefCarrier(properties))]_vars

\* C11 amended: on every schema with at least one field the writer goes on
\* to the POST with the first title-typed field as carrier, or with the first
\* field when no field is title-typed; on a schema with no fields it raises
\* IndexError and issues no POST.
C11_CarrierOnNonEmptySchema ==
    [][create_task_page =>
          IF properties = <<>>
          THEN exc' = "IndexError" /\ pc' = "except" /\ calls' = calls
          ELSE PostFollows /\ title_property' = RefCarrier(properties)]_vars

\* no title-typed field: the first field carries the title and the POST is
\* issued
C11_Witness ==
    /\ Len(properties) = 2
    /\ TitleTyped(properties) = {}
    /\ title_property = "P1"
    /\ calls # <<>>
    /\ calls[Len(calls)].api = PostPage

\* two title-typed fields behind another one: the first of them is picked
C11_WitnessFirstTitle ==
    /\ Len(properties) = 3
    /\ TitleTyped(properties) = {2, 3}
    /\ title_property = "P2"
    /\ calls[Len(calls)].api = PostPage

\* the writer got as far as building the payload
PayloadBuilt == title_property # PyNone

FieldNamed(n) == CHOOSE k \in 1..Len(properties) : properties[k].name = n

\* the names the contract puts in the payload besides the carrier
RefDefaulted ==
    {properties[k].name : k \in
        {j \in 1..Len(properties) :
            /\ properties[j].name # title_property
            /\ \/ properties[j].type = "date"
               \/ properties[j].type = "select" /\ Len(properties[j].options) >= 1}}

\* C12: the payload holds the title carrier as a title value set to the
\* draft's title, every other select field with an option set to its first
\* option, every other date field set to the current date, and nothing
\* else; the description is the one paragraph child.
C12_PayloadContents ==
    PayloadBuilt =>
        /\ DOMAIN payload.properties = {title_property} \cup RefDefaulted
        /\ payload.properties[title_property] =
              [kind |-> "title", value |-> task_data.title]
        /\ \A n \in RefDefaulted :
              payload.properties[n] =
                 IF properties[FieldNamed(n)].type = "select"
                 THEN [kind |-> "select",
                       value |-> Head(properties[FieldNamed(n)].options)]
                 ELSE [kind |-> "date", value |-> Today]
        /\ payload.children =
              <<[type |-> "paragraph", content |-> task_data.description]>>

\* a title, a select with the options To Do and Done, and a date
C12_Witness ==
    /\ PayloadBuilt
    /\ properties = <<Field("P1", "title", <<>>),
                      Field("P2", "select", <<"To Do", "Done">>),
                      Field("P3", "date", <<>>)>>
    /\ DOMAIN payload.properties = {"P1", "P2", "P3"}
    /\ payload.properties["P2"].value = "To Do"
    /\ payload.properties["P3"].value = Today

\* a select without options and a field of another type stay out
C12_WitnessLeftUnset ==
    /\ PayloadBuilt
    /\ properties = <<Field("P1", "select", <<>>),
                      Field("P2", "title", <<>>),
                      Field("P3", "rich_text", <<>>)>>
    /\ DOMAIN payload.properties = {"P2"}

WriteCallOrder ==
    /\ Len(calls) <= 2
    /\ Len(calls) >= 1 => calls[1].api = GetDatabase
    /\ Len(calls) >= 2 => calls[2].api = PostPage

\* C13: the schema GET comes before the POST; a schema GET that is refused
\* ends the writer with no POST issued; a POST that is refused ends it in
\* failure; when both answer with success the writer returns the new
\* record's identifier and does not raise.
C13_WriterStatuses ==
    /\ WriteCallOrder
    /\ (Len(calls) >= 1 /\ calls[1].status # 200) =>
          (pc = "except" /\ exc = "Exception" /\ Len(calls) = 1)
    /\ (Len(calls) = 2 /\ calls[2].status # 200) =>
          (pc = "except" /\ exc = "Exception" /\ created = 0)
    /\ (Len(calls) = 2 /\ calls[1].status = 200 /\ calls[2].status = 200) =>
          (pc = "return" /\ exc = "none" /\ task_id = NewPageId /\ created = 1)

C13_Witness ==
    /\ Len(calls) = 2
    /\ calls[1].status = 200 /\ calls[2].status = 200
    /\ pc = "return"
    /\ task_id = NewPageId

C13_WitnessRefusedPost ==
    /\ Len(calls) = 2
    /\ calls[2].status = 404
    /\ pc = "except"

(***************************************************************************)
(* Order of the remote calls of one run                                    *)
(***************************************************************************)
RunOrder == <<GetPage, GetChildren, ChatCompletion, GetDatabase, PostPage>>

NotionCalls == {1, 2, 4, 5}

CompletionFailed == Len(calls) >= 3 /\ completion.kind = "raises"

\* C14: the calls of a run are a prefix of GET page, GET children, chat
\* completion, GET database, POST page; a refused Notion call is the last
\* call of the run; a failed completion is not: the run goes on to the
\* schema GET with the default draft, and the record it then creates has the
\* default title and description.
C14_LinearRun ==
    /\ Len(calls) <= 5
    /\ \A k \in 1..Len(calls) : calls[k].api = RunOrder[k]
    /\ \A k \in NotionCalls :
          (k <= Len(calls) /\ calls[k].status # 200) =>
              (k = Len(calls) /\ pc \in {"except", "done"}
               /\ outcome \in {"running", "error"})
    /\ CompletionFailed =>
          /\ task_data = DefaultDraft
          /\ Len(calls) = 3 =>
                (pc = "get_database" /\ exc = "none"
                 /\ ENABLED get_database_properties(RunDatabases))
          /\ created = 1 =>
                /\ payload.properties[title_property].value = DefaultTitle
                /\ payload.children[1].content = DefaultDescription

\* the completion call failed and the record was still created, with the
\* default title
C14_Witness ==
    /\ CompletionFailed
    /\ Len(calls) = 5
    /\ created = 1
    /\ outcome = "success"
    /\ payload.properties[title_property].value = DefaultTitle

\* the database is refused only after the completion call was made
C14_WitnessBadDatabase ==
    /\ Len(calls) = 4
    /\ calls[3].api = ChatCompletion
    /\ calls[4].status = 404
    /\ outcome = "error"

====
